---------------------------- MODULE Spec2Model ----------------------------
(***************************************************************************)
(* A model of addon/services/g-map.js: the gMap service of                 *)
(* ember-cli-g-maps.  The service keeps                                    *)
(*   - maps:          the ordered collection of {name, map} records,       *)
(*   - mapIter:       the module-level counter used for generated names,   *)
(*   - _geocodeQueue: the promises of the geocode requests in flight,      *)
(*   - autocompletes: the autocomplete entries of each service instance.   *)
(* Every public method is a pure operator translated from its code, and an *)
(* action "Call<Method>" in which some caller invokes it.                  *)
(***************************************************************************)
EXTENDS Naturals, Integers, Sequences, FiniteSets, TLC

VARIABLES
  maps,           \* const maps = Ember.A([]): sequence of mapItem records
  mapIter,        \* let mapIter = 0
  _geocodeQueue,  \* _geocodeQueue: []: sequence of request (promise) ids
  requests,       \* the promise made by each geocode() call so far, by id
  build,          \* what reading `request` before its initialisation does
  call,           \* the most recent call: the method and its arguments (of
                  \* removeAll, the names it set out to remove)
  ret,            \* what that call returned or threw
  out,            \* what that call logged or triggered, in order
  added,          \* history: the {name, map} of every addMap call that
                  \* returned and whose name no later call removed, oldest first
  heap,           \* the same objects when several service instances run:
                  \* each kind of object by the holder it lives on
  latest          \* history: per instance and element id, the item of the
                  \* last add since the last remove, if any

vars ==
  <<maps, mapIter, _geocodeQueue, requests, build, call, ret, out, added,
    heap, latest>>

registryVars == <<maps, mapIter>>
geocodeVars  == <<_geocodeQueue, requests, build>>
instanceVars == <<heap, latest>>

---------------------------------------------------------------------------
(* Bounds of the model.                                                    *)

\* addMap is called at most MaxIter times between two removeAll calls.
MaxIter == 3

\* geocode() is called at most MaxRequests times.
MaxRequests == 3

\* where the generated names are followed up to two base-36 digits: addMap
\* is called at most MaxCounter times between two removeAll calls,
MaxCounter == 37

\* and only while the registry holds at most MaxMaps maps.
MaxMaps == 1

---------------------------------------------------------------------------
(* JavaScript values.  Each kind of value has its own record shape.        *)

Str(s)    == [type |-> "string", str |-> s]
Bool(b)   == [type |-> "boolean", bool |-> b]
Array(xs) == [type |-> "array", items |-> xs]
Undefined == [type |-> "undefined"]
Null      == [type |-> "null"]
\* an object that is no google.maps.Map, e.g. {}
PlainObject == [type |-> "object"]
\* new google.maps.Map(): the i-th map instance a component made
GoogleMap(i) == [type |-> "Map", id |-> i]

\* typeof v === 'string'
IsString(v) == v.type = "string"

\* v instanceof google.maps.Map
InstanceOfMap(v) == v.type = "Map"

\* JavaScript's ToBoolean on the values of the model
Truthy(v) ==
  CASE v.type = "undefined" -> FALSE
    [] v.type = "null"      -> FALSE
    [] v.type = "string"    -> v.str # ""
    [] v.type = "boolean"   -> v.bool
    [] OTHER                -> TRUE

Returns(v)  == [kind |-> "return", value |-> v]
Throws(msg) == [kind |-> "throw", message |-> msg]

\* Number.prototype.toString(36)
Digits36 ==
  << "0", "1", "2", "3", "4", "5", "6", "7", "8", "9", "a", "b",
     "c", "d", "e", "f", "g", "h", "i", "j", "k", "l", "m", "n",
     "o", "p", "q", "r", "s", "t", "u", "v", "w", "x", "y", "z" >>

RECURSIVE toString36(_)
toString36(n) ==
  IF n < 36 THEN Digits36[n + 1]
  ELSE toString36(n \div 36) \o Digits36[(n % 36) + 1]

\* a default parameter (name = ''): only undefined takes the default
DefaultName(name) == IF name = Undefined THEN Str("") ELSE name

---------------------------------------------------------------------------
(* The maps object (lines 12-119).  Each method takes the store `ms` and   *)
(* yields the new store, the result and the events it emitted.             *)

Warn(msg)     == [event |-> "warn", message |-> msg]
Resize(map)   == [event |-> "resize", map |-> map]

\* the index of the first record named `name` at or after i, 0 if none
RECURSIVE firstIndex(_, _, _)
firstIndex(ms, name, i) ==
  IF i > Len(ms) THEN 0
  ELSE IF ms[i].name = name THEN i
  ELSE firstIndex(ms, name, i + 1)

\* const mapItem = { name, map }; its onLoad accessor holds no state
MapItem(name, map) == [type |-> "object", name |-> name, map |-> map]

\* select as it would be with its scan started at the second record
maps_select_skipFirst(ms, name) ==
  LET i == firstIndex(ms, name, 2)
  IN  IF i = 0 THEN Undefined ELSE ms[i]

\* maps.select(name): the first record named `name`, or undefined
maps_select(ms, name) ==
  LET i == firstIndex(ms, name, 1)
  IN  IF i = 0 THEN Undefined ELSE ms[i]

\* Ember's removeAt(i), 1-based here
removeAt(ms, i) == SubSeq(ms, 1, i - 1) \o SubSeq(ms, i + 1, Len(ms))

\* add as it would be without its check of a taken name
maps_add_unchecked(ms, name, map) ==
  IF ~IsString(name)
    THEN [maps |-> ms, result |-> Throws("GMap name must be a string")]
  ELSE IF ~InstanceOfMap(map)
    THEN [maps |-> ms,
          result |-> Throws("GMap service only accepts Google Map instances")]
  ELSE [maps |-> Append(ms, MapItem(name, map)),
        result |-> Returns(MapItem(name, map))]

\* add as it would be with pushObject moved before the check of a taken name
maps_add_pushFirst(ms, name, map) ==
  IF ~IsString(name)
    THEN [maps |-> ms, result |-> Throws("GMap name must be a string")]
  ELSE IF ~InstanceOfMap(map)
    THEN [maps |-> ms,
          result |-> Throws("GMap service only accepts Google Map instances")]
  ELSE IF Truthy(maps_select(ms, name))
    THEN [maps |-> Append(ms, MapItem(name, map)),
          result |-> Throws("GMap name is taken, select a new GMap name")]
  ELSE [maps |-> Append(ms, MapItem(name, map)),
        result |-> Returns(MapItem(name, map))]

\* add as it would be without its check of the type of the name
maps_add_anyName(ms, name, map) ==
  IF ~InstanceOfMap(map)
    THEN [maps |-> ms,
          result |-> Throws("GMap service only accepts Google Map instances")]
  ELSE IF Truthy(maps_select(ms, name))
    THEN [maps |-> ms,
          result |-> Throws("GMap name is taken, select a new GMap name")]
  ELSE [maps |-> Append(ms, MapItem(name, map)),
        result |-> Returns(MapItem(name, map))]

\* add as it would be with the check of a taken name before that of the map
maps_add_takenFirst(ms, name, map) ==
  IF ~IsString(name)
    THEN [maps |-> ms, result |-> Throws("GMap name must be a string")]
  ELSE IF Truthy(maps_select(ms, name))
    THEN [maps |-> ms,
          result |-> Throws("GMap name is taken, select a new GMap name")]
  ELSE IF ~InstanceOfMap(map)
    THEN [maps |-> ms,
          result |-> Throws("GMap service only accepts Google Map instances")]
  ELSE [maps |-> Append(ms, MapItem(name, map)),
        result |-> Returns(MapItem(name, map))]

\* maps.add(name, map)
maps_add(ms, name, map) ==
  IF ~IsString(name)
    THEN [maps |-> ms, result |-> Throws("GMap name must be a string")]
  ELSE IF ~InstanceOfMap(map)
    THEN [maps |-> ms,
          result |-> Throws("GMap service only accepts Google Map instances")]
  ELSE IF Truthy(maps_select(ms, name))
    THEN [maps |-> ms,
          result |-> Throws("GMap name is taken, select a new GMap name")]
  ELSE LET mapItem == MapItem(name, map)
       IN  [maps |-> Append(ms, mapItem), result |-> Returns(mapItem)]

\* remove as it would be if it filled the hole with the last record
maps_remove_swap(ms, name) ==
  LET i == firstIndex(ms, name, 1)
  IN  IF i = 0
        THEN [maps |-> ms, result |-> Returns(Bool(FALSE))]
        ELSE [maps |-> IF i = Len(ms) THEN removeAt(ms, i)
                       ELSE [removeAt(ms, Len(ms)) EXCEPT ![i] = ms[Len(ms)]],
              result |-> Returns(Bool(TRUE))]

\* remove as it would be if it removed the last record on a match
maps_remove_last(ms, name) ==
  LET i == firstIndex(ms, name, 1)
  IN  IF i = 0
        THEN [maps |-> ms, result |-> Returns(Bool(FALSE))]
        ELSE [maps |-> removeAt(ms, Len(ms)), result |-> Returns(Bool(TRUE))]

\* maps.remove(name)
maps_remove(ms, name) ==
  LET i == firstIndex(ms, name, 1)
  IN  IF i = 0
        THEN [maps |-> ms, result |-> Returns(Bool(FALSE))]
        ELSE [maps |-> removeAt(ms, i), result |-> Returns(Bool(TRUE))]

\* refresh as it would be if it resized the first map of the store
maps_refresh_firstMap(ms, name) ==
  LET mapStore == maps_select(ms, name)
  IN  IF ~Truthy(mapStore)
        THEN [result |-> Returns(Bool(FALSE)),
              out |-> << Warn("Attempted to refresh undefined GMap instance: "
                              \o (IF Truthy(name) THEN name.str
                                  ELSE "(no map name given)")) >>]
        ELSE [result |-> Returns(Bool(TRUE)),
              out |-> << Resize(ms[1].map) >>]

\* refresh as it would be without its warning
maps_refresh_silent(ms, name) ==
  LET mapStore == maps_select(ms, name)
  IN  IF ~Truthy(mapStore)
        THEN [result |-> Returns(Bool(FALSE)), out |-> << >>]
        ELSE [result |-> Returns(Bool(TRUE)),
              out |-> << Resize(mapStore.map) >>]

\* maps.refresh(name)
maps_refresh(ms, name) ==
  LET mapStore == maps_select(ms, name)
  IN  IF ~Truthy(mapStore)
        THEN [result |-> Returns(Bool(FALSE)),
              out |-> << Warn("Attempted to refresh undefined GMap instance: "
                              \o (IF Truthy(name) THEN name.str
                                  ELSE "(no map name given)")) >>]
        ELSE [result |-> Returns(Bool(TRUE)),
              out |-> << Resize(mapStore.map) >>]

\* maps.list(): maps.mapBy('name')
maps_list(ms) == [i \in 1..Len(ms) |-> ms[i].name]

---------------------------------------------------------------------------
(* The service's public methods on the registry (lines 216-303).           *)

\* addMap as it would be if the name were generated before mapIter++
addMap_nameBeforeIncrement(ms, iter, name, map) ==
  LET generated == InstanceOfMap(name)
      n == IF generated THEN Str("map-" \o toString36(iter)) ELSE name
      m == IF generated THEN name ELSE map
      r == maps_add(ms, n, m)
  IN  [mapIter |-> iter + 1, maps |-> r.maps, result |-> r.result]

\* Number.prototype.toString(), which addMap does not call
RECURSIVE toString10(_)
toString10(n) ==
  IF n < 10 THEN Digits36[n + 1]
  ELSE toString10(n \div 10) \o Digits36[(n % 10) + 1]

\* addMap as it would be if the name were rendered in base 10
addMap_decimal(ms, iter, name, map) ==
  LET next == iter + 1
      generated == InstanceOfMap(name)
      n == IF generated THEN Str("map-" \o toString10(next)) ELSE name
      m == IF generated THEN name ELSE map
      r == maps_add(ms, n, m)
  IN  [mapIter |-> next, maps |-> r.maps, result |-> r.result]

\* addMap(name, map), with `iter` the value of mapIter at the call
addMap(ms, iter, name, map) ==
  LET next == iter + 1
      generated == InstanceOfMap(name)
      n == IF generated THEN Str("map-" \o toString36(next)) ELSE name
      m == IF generated THEN name ELSE map
      r == maps_add(ms, n, m)
  IN  [mapIter |-> next, maps |-> r.maps, result |-> r.result]

\* list()
list(ms) == maps_list(ms)

\* refreshMap(name = '')
refreshMap(ms, name) == maps_refresh(ms, DefaultName(name))

\* removeMap(name = '')
removeMap(ms, name) == maps_remove(ms, DefaultName(name))

\* the loop of removeAll: removeMap(names[i]) for i down to 1
RECURSIVE removeEach(_, _, _)
removeEach(ms, names, i) ==
  IF i = 0 THEN ms
  ELSE removeEach(removeMap(ms, names[i]).maps, names, i - 1)

\* removeAll as it would be with its loop stopped at i > 0
removeAll_stopsEarly(ms) ==
  LET before == list(ms)
      left   == IF Len(before) = 0 THEN ms
                ELSE removeEach(ms, Tail(before), Len(before) - 1)
      after  == list(left)
  IN  [maps |-> left, mapIter |-> Len(after), names |-> before,
       result |-> Returns(Bool(Len(after) = 0))]

\* removeAll()
removeAll(ms) ==
  LET before == list(ms)
      left   == removeEach(ms, before, Len(before))
      after  == list(left)
  IN  [maps |-> left, mapIter |-> Len(after), names |-> before,
       result |-> Returns(Bool(Len(after) = 0))]

\* selectMap(name = '')
selectMap(ms, name) ==
  LET result == maps_select(ms, DefaultName(name))
  IN  IF Truthy(result) /\ Truthy(result.map)
        THEN Returns(result.map)
        ELSE Returns(Null)

---------------------------------------------------------------------------
(* geocode (lines 125-154).                                                *)

\* the promise object made by the id-th geocode() call
Request(id) == [type |-> "promise", id |-> id]

\* `request` read inside the executor, before `const request` is initialised:
\* undefined where const is compiled to var, a ReferenceError where it is not
Uninitialised == [type |-> "uninitialised"]
BeforeInit(bld) == IF bld = "var" THEN Undefined ELSE Uninitialised

Pending      == [state |-> "pending"]
Fulfilled(v) == [state |-> "fulfilled", value |-> v]
Rejected(e)  == [state |-> "rejected", reason |-> e]

\* resolve and reject of an RSVP promise: only a pending promise settles
resolve(p, v) == IF p.state = "pending" THEN Fulfilled(v) ELSE p
reject(p, e)  == IF p.state = "pending" THEN Rejected(e) ELSE p

Min(a, b) == IF a < b THEN a ELSE b
Max(a, b) == IF a > b THEN a ELSE b

\* Array.prototype.indexOf: zero-based, -1 when absent
RECURSIVE indexFrom(_, _, _)
indexFrom(q, x, i) ==
  IF i > Len(q) THEN -1
  ELSE IF q[i] = x THEN i - 1
  ELSE indexFrom(q, x, i + 1)

indexOf(q, x) == indexFrom(q, x, 1)

\* Array.prototype.splice(start, deleteCount), start zero-based; a negative
\* start counts from the end
splice(q, start, deleteCount) ==
  LET len   == Len(q)
      from  == IF start < 0 THEN Max(len + start, 0) ELSE Min(start, len)
      count == Min(Max(deleteCount, 0), len - from)
  IN  SubSeq(q, 1, from) \o SubSeq(q, from + count + 1, len)

\* the callback as it would be if only 'OK' resolved
callback_okOnly(p, queue, request, result, status) ==
  LET settled ==
        IF status = "OK"
          THEN resolve(p, result)
          ELSE LET err == IF Truthy(result) /\ Truthy(result.error_message)
                            THEN [status |-> status,
                                  message |-> result.error_message]
                            ELSE [status |-> status]
               IN  reject(p, err)
  IN  IF request = Uninitialised
        THEN [promise |-> settled, queue |-> queue,
              result |-> Throws("ReferenceError: request")]
        ELSE [promise |-> settled,
              queue |-> splice(queue, indexOf(queue, request), 1),
              result |-> Returns(Undefined)]

\* the callback as it would be if it took the oldest request off the queue
callback_shift(p, queue, request, result, status) ==
  LET settled ==
        IF status = "OK" \/ status = "ZERO_RESULTS"
          THEN resolve(p, result)
          ELSE LET err == IF Truthy(result) /\ Truthy(result.error_message)
                            THEN [status |-> status,
                                  message |-> result.error_message]
                            ELSE [status |-> status]
               IN  reject(p, err)
  IN  IF request = Uninitialised
        THEN [promise |-> settled, queue |-> queue,
              result |-> Throws("ReferenceError: request")]
        ELSE [promise |-> settled,
              queue |-> splice(queue, 0, 1),
              result |-> Returns(Undefined)]

\* options.callback(result, status) of the promise p, with `request` what the
\* closure reads as its own promise
callback(p, queue, request, result, status) ==
  LET settled ==
        IF status = "OK" \/ status = "ZERO_RESULTS"
          THEN resolve(p, result)
          ELSE LET err == IF Truthy(result) /\ Truthy(result.error_message)
                            THEN [status |-> status,
                                  message |-> result.error_message]
                            ELSE [status |-> status]
               IN  reject(p, err)
  IN  IF request = Uninitialised
        THEN [promise |-> settled, queue |-> queue,
              result |-> Throws("ReferenceError: request")]
        ELSE [promise |-> settled,
              queue |-> splice(queue, indexOf(queue, request), 1),
              result |-> Returns(Undefined)]

\* the provider, GMaps.prototype.geocode(options), inside geocode(): it keeps
\* options.callback for later, or calls it before it returns
NoCall == [called |-> FALSE]
Called(result, status) == [called |-> TRUE, result |-> result, status |-> status]

\* geocode(options): reqs are the promises made so far
geocode(reqs, queue, bld, provider) ==
  LET id == Len(reqs) + 1
      inside == IF provider.called
                  THEN callback(Pending, queue, BeforeInit(bld),
                                provider.result, provider.status)
                  ELSE [promise |-> Pending, queue |-> queue,
                        result |-> Returns(Undefined)]
  IN  [requests |-> Append(reqs, inside.promise),
       queue |-> Append(inside.queue, Request(id)),
       result |-> Returns(Request(id))]

---------------------------------------------------------------------------
(* The autocompletes object (lines 156-177): `reg` is the object           *)
(* `autocompletes` of the closure, a function from the keys it has.        *)

\* a component with its elementId, and the item a component registers
Component(id)      == [type |-> "component", elementId |-> Str(id)]
Item(component, n) == [type |-> "item", component |-> component, n |-> n]

\* get(component, 'elementId'), as a key of the object
elementId(component) == component.elementId.str

\* remove as it would be if it emptied the object
autocompletes_remove_all(reg, component) == << >>

\* add(item)
autocompletes_add(reg, item) ==
  LET id == elementId(item.component)
  IN  [k \in DOMAIN reg \cup {id} |-> IF k = id THEN item ELSE reg[k]]

\* remove(component)
autocompletes_remove(reg, component) ==
  LET id == elementId(component)
  IN  [k \in DOMAIN reg \ {id} |-> reg[k]]

\* autocompletes[key]
property(reg, key) == IF key \in DOMAIN reg THEN reg[key] ELSE Undefined

\* get(component)
autocompletes_get(reg, component) ==
  IF IsString(component)
    THEN property(reg, component.str)
    ELSE property(reg, elementId(component))

---------------------------------------------------------------------------
(* Where the objects live when the class has several instances.            *)

\* the service instances, and the holder of what is made once, when the
\* module is loaded and the class defined
Instances == { 1, 2 }
Class     == 0
Holders   == {Class} \cup Instances

\* the holder as it would be if _geocodeQueue were made for each instance
Holder_ownQueue(property_, self) ==
  CASE property_ = "mapIter"       -> Class
    [] property_ = "maps"          -> Class
    [] property_ = "_geocodeQueue" -> self
    [] property_ = "autocompletes" -> self

\* the holder of what instance `self` reads as mapIter, this.maps,
\* this._geocodeQueue and this.get('autocompletes'): mapIter is a variable
\* of the module; maps is the object an immediately-invoked function made
\* when the class was defined and _geocodeQueue an array literal of the class
\* body, both on the prototype; autocompletes is a computed property, whose
\* getter runs for each instance
Holder(property_, self) ==
  CASE property_ = "mapIter"       -> Class
    [] property_ = "maps"          -> Class
    [] property_ = "_geocodeQueue" -> Class
    [] property_ = "autocompletes" -> self

---------------------------------------------------------------------------
(* The callers' inputs.                                                    *)

\* the map instances the components made
Handles == { GoogleMap(1), GoogleMap(2) }

\* the names callers pass to addMap
GivenNames == { Str(""), Str("main"), Str("map-2") }

\* the names addMap can generate within the bound
GeneratedNames == { Str("map-" \o toString36(k)) : k \in 1..MaxIter }

AllNames == GivenNames \cup GeneratedNames

\* addMap(name, map), addMap(name), addMap(map) and addMap()
AddMapArgs ==
  [name : GivenNames \cup {Undefined}, map : Handles \cup {Undefined, PlainObject}]
    \cup [name : Handles, map : {Undefined}]

\* the argument of refreshMap, removeMap and selectMap, or none
LookupArgs == AllNames \cup {Undefined}

\* what the provider passes to options.callback
Statuses == { "OK", "ZERO_RESULTS", "OVER_QUERY_LIMIT" }

GeocoderResult(msg) == [type |-> "result", error_message |-> msg]

\* no result, a result with an empty error_message, and one with a message
Results ==
  { Null, GeocoderResult(Str("")), GeocoderResult(Str("quota exceeded")) }

Providers == {NoCall} \cup { Called(r, s) : r \in Results, s \in Statuses }

\* the element ids of the components, their items, and what get() is given
ElementIds == { "ember1", "ember2" }
Items      == { Item(Component(id), n) : id \in ElementIds, n \in 1..2 }
GetArgs    == { Component(id) : id \in ElementIds }
                \cup { Str(id) : id \in ElementIds \cup {"ember3"} }

---------------------------------------------------------------------------
(* The state machine.                                                      *)

Init ==
  /\ maps = << >>
  /\ mapIter = 0
  /\ _geocodeQueue = << >>
  /\ requests = << >>
  /\ build \in { "var", "const" }
  /\ call = [op |-> "create"]
  /\ ret = Returns(Undefined)
  /\ out = << >>
  /\ added = << >>
  /\ heap = [mapIter       |-> [h \in Holders |-> 0],
             maps          |-> [h \in Holders |-> << >>],
             _geocodeQueue |-> [h \in Holders |-> << >>],
             autocompletes |-> [h \in Holders |-> << >>],
             requests      |-> << >>,
             queueOf       |-> << >>]
  /\ latest = [self \in Instances |-> [id \in ElementIds |-> Undefined]]

\* the handle a caller of addMap(name, map) or addMap(map) passes
HandlePassed(name, map) == IF InstanceOfMap(name) THEN name ELSE map

\* the history without the entries named `name`
NotNamed(h, name) == SelectSeq(h, LAMBDA e : e.name # name)

\* a call of addMap while fewer than `limit` calls were counted
AddMapUnder(limit, name, map) ==
  /\ mapIter < limit
  /\ LET r == addMap(maps, mapIter, name, map)
     IN  /\ maps' = r.maps
         /\ mapIter' = r.mapIter
         /\ call' = [op |-> "addMap", name |-> name, map |-> map]
         /\ ret' = r.result
         /\ out' = << >>
         /\ added' = IF r.result.kind = "return"
                       THEN Append(added, [name |-> r.result.value.name,
                                           map |-> HandlePassed(name, map)])
                       ELSE added
  /\ UNCHANGED <<geocodeVars, instanceVars>>

AddMap(name, map) == AddMapUnder(MaxIter, name, map)

CallAddMap == \E args \in AddMapArgs : AddMap(args.name, args.map)

CallList ==
  /\ call' = [op |-> "list"]
  /\ ret' = Returns(Array(list(maps)))
  /\ out' = << >>
  /\ UNCHANGED <<registryVars, geocodeVars, added, instanceVars>>

RefreshMap(name) ==
  /\ LET r == refreshMap(maps, name)
     IN  /\ call' = [op |-> "refreshMap", name |-> name]
         /\ ret' = r.result
         /\ out' = r.out
  /\ UNCHANGED <<registryVars, geocodeVars, added, instanceVars>>

CallRefreshMap == \E name \in LookupArgs : RefreshMap(name)

CallRemoveAll ==
  /\ LET r == removeAll(maps)
     IN  /\ maps' = r.maps
         /\ mapIter' = r.mapIter
         /\ call' = [op |-> "removeAll", names |-> r.names]
         /\ ret' = r.result
         /\ out' = << >>
         /\ added' = IF r.result = Returns(Bool(TRUE)) THEN << >> ELSE added
  /\ UNCHANGED <<geocodeVars, instanceVars>>

RemoveMap(name) ==
  /\ LET r == removeMap(maps, name)
     IN  /\ maps' = r.maps
         /\ call' = [op |-> "removeMap", name |-> name]
         /\ ret' = r.result
         /\ out' = << >>
         /\ added' = IF r.result = Returns(Bool(TRUE))
                       THEN NotNamed(added, DefaultName(name))
                       ELSE added
  /\ UNCHANGED <<mapIter, geocodeVars, instanceVars>>

CallRemoveMap == \E name \in LookupArgs : RemoveMap(name)

SelectMap(name) ==
  /\ call' = [op |-> "selectMap", name |-> name]
  /\ ret' = selectMap(maps, name)
  /\ out' = << >>
  /\ UNCHANGED <<registryVars, geocodeVars, added, instanceVars>>

CallSelectMap == \E name \in LookupArgs : SelectMap(name)

\* a component calls geocode(options); the provider is the environment's
Geocode(provider) ==
  /\ Len(requests) < MaxRequests
  /\ LET r == geocode(requests, _geocodeQueue, build, provider)
     IN  /\ requests' = r.requests
         /\ _geocodeQueue' = r.queue
         /\ call' = [op |-> "geocode", called |-> provider.called]
         /\ ret' = r.result
         /\ out' = << >>
  /\ UNCHANGED <<registryVars, build, added, instanceVars>>

CallGeocode == \E provider \in Providers : Geocode(provider)

\* the provider calls the options.callback of the id-th geocode() call,
\* after that call returned
Callback(id, result, status) ==
  /\ LET r == callback(requests[id], _geocodeQueue, Request(id),
                       result, status)
     IN  /\ requests' = [requests EXCEPT ![id] = r.promise]
         /\ _geocodeQueue' = r.queue
         /\ call' = [op |-> "callback", id |-> id]
         /\ ret' = r.result
         /\ out' = << >>
  /\ UNCHANGED <<registryVars, build, added, instanceVars>>

ProviderCallback ==
  \E id \in 1..Len(requests), result \in Results, status \in Statuses :
    Callback(id, result, status)

\* the provider calls the callback of a request it has not answered yet
FirstCallback(id) ==
  /\ id \in 1..Len(requests)
  /\ requests[id].state = "pending"
  /\ \E result \in Results, status \in Statuses : Callback(id, result, status)

\* this.get('autocompletes').add(item) on instance `self`
AutocompleteAdd(self, item) ==
  /\ LET h == Holder("autocompletes", self)
     IN  heap' = [heap EXCEPT !.autocompletes[h] = autocompletes_add(@, item)]
  /\ latest' = [latest EXCEPT ![self][elementId(item.component)] = item]
  /\ call' = [op |-> "autocompletes.add", self |-> self, item |-> item]
  /\ ret' = Returns(Undefined)
  /\ out' = << >>
  /\ UNCHANGED <<registryVars, geocodeVars, added>>

\* this.get('autocompletes').remove(component) on instance `self`
AutocompleteRemove(self, component) ==
  /\ LET h == Holder("autocompletes", self)
     IN  heap' = [heap EXCEPT
                    !.autocompletes[h] = autocompletes_remove(@, component)]
  /\ latest' = [latest EXCEPT ![self][elementId(component)] = Undefined]
  /\ call' = [op |-> "autocompletes.remove", self |-> self,
              component |-> component]
  /\ ret' = Returns(Undefined)
  /\ out' = << >>
  /\ UNCHANGED <<registryVars, geocodeVars, added>>

\* this.get('autocompletes').get(component) on instance `self`
AutocompleteGet(self, component) ==
  /\ LET h == Holder("autocompletes", self)
     IN  ret' = Returns(autocompletes_get(heap.autocompletes[h], component))
  /\ call' = [op |-> "autocompletes.get", self |-> self,
              component |-> component]
  /\ out' = << >>
  /\ UNCHANGED <<registryVars, geocodeVars, added, instanceVars>>

CallAutocompleteAdd ==
  \E self \in Instances, item \in Items : AutocompleteAdd(self, item)

CallAutocompleteRemove ==
  \E self \in Instances, id \in ElementIds :
    AutocompleteRemove(self, Component(id))

CallAutocompleteGet ==
  \E self \in Instances, component \in GetArgs :
    AutocompleteGet(self, component)

\* what instance `self` reads
MapIterOf(self) == heap.mapIter[Holder("mapIter", self)]
MapsOf(self)    == heap.maps[Holder("maps", self)]
QueueOf(self)   == heap._geocodeQueue[Holder("_geocodeQueue", self)]

\* addMap(name, map) called on instance `self`
AddMapOn(self, name, map) ==
  /\ MapIterOf(self) < MaxIter
  /\ LET r == addMap(MapsOf(self), MapIterOf(self), name, map)
     IN  /\ heap' = [heap EXCEPT !.maps[Holder("maps", self)] = r.maps,
                                 !.mapIter[Holder("mapIter", self)] = r.mapIter]
         /\ call' = [op |-> "addMap", self |-> self, name |-> name, map |-> map]
         /\ ret' = r.result
  /\ out' = << >>
  /\ UNCHANGED <<registryVars, geocodeVars, added, latest>>

\* removeMap(name) called on instance `self`
RemoveMapOn(self, name) ==
  /\ LET r == removeMap(MapsOf(self), name)
     IN  /\ heap' = [heap EXCEPT !.maps[Holder("maps", self)] = r.maps]
         /\ ret' = r.result
  /\ call' = [op |-> "removeMap", self |-> self, name |-> name]
  /\ out' = << >>
  /\ UNCHANGED <<registryVars, geocodeVars, added, latest>>

\* removeAll() called on instance `self`
RemoveAllOn(self) ==
  /\ LET r == removeAll(MapsOf(self))
     IN  /\ heap' = [heap EXCEPT !.maps[Holder("maps", self)] = r.maps,
                                 !.mapIter[Holder("mapIter", self)] = r.mapIter]
         /\ ret' = r.result
  /\ call' = [op |-> "removeAll", self |-> self]
  /\ out' = << >>
  /\ UNCHANGED <<registryVars, geocodeVars, added, latest>>

\* selectMap(name) called on instance `self`
SelectMapOn(self, name) ==
  /\ ret' = selectMap(MapsOf(self), name)
  /\ call' = [op |-> "selectMap", self |-> self, name |-> name]
  /\ out' = << >>
  /\ UNCHANGED <<registryVars, geocodeVars, added, instanceVars>>

\* geocode(options) called on instance `self`, with a provider that keeps
\* the callback: const queue = this._geocodeQueue is what the callback uses
GeocodeOn(self) ==
  /\ Len(heap.requests) < MaxRequests
  /\ LET h == Holder("_geocodeQueue", self)
         r == geocode(heap.requests, heap._geocodeQueue[h], build, NoCall)
     IN  /\ heap' = [heap EXCEPT !.requests = r.requests,
                                 !._geocodeQueue[h] = r.queue,
                                 !.queueOf = Append(@, h)]
         /\ ret' = r.result
  /\ call' = [op |-> "geocode", self |-> self]
  /\ out' = << >>
  /\ UNCHANGED <<registryVars, geocodeVars, added, latest>>

\* the provider answers the id-th geocode() call
CallbackOn(id, result, status) ==
  /\ heap.requests[id].state = "pending"
  /\ LET h == heap.queueOf[id]
         r == callback(heap.requests[id], heap._geocodeQueue[h], Request(id),
                       result, status)
     IN  /\ heap' = [heap EXCEPT !.requests[id] = r.promise,
                                 !._geocodeQueue[h] = r.queue]
         /\ ret' = r.result
  /\ call' = [op |-> "callback", id |-> id]
  /\ out' = << >>
  /\ UNCHANGED <<registryVars, geocodeVars, added, latest>>

\* the callers of each instance: a component of instance `self` names its
\* map 'main' and passes the map it made
NextInstances ==
  \/ \E self \in Instances : AddMapOn(self, Str("main"), GoogleMap(self))
  \/ \E self \in Instances : RemoveMapOn(self, Str("main"))
  \/ \E self \in Instances : RemoveAllOn(self)
  \/ \E self \in Instances : SelectMapOn(self, Str("main"))
  \/ \E self \in Instances : GeocodeOn(self)
  \/ \E id \in 1..Len(heap.requests) : CallbackOn(id, Null, "OK")
  \/ \E self \in Instances :
       AutocompleteAdd(self, Item(Component("ember1"), 1))
  \/ \E self \in Instances : AutocompleteRemove(self, Component("ember1"))
  \/ \E self \in Instances : AutocompleteGet(self, Str("ember1"))

NextAutocomplete ==
  \/ CallAutocompleteAdd
  \/ CallAutocompleteRemove
  \/ CallAutocompleteGet

NextRegistry ==
  \/ CallAddMap
  \/ CallList
  \/ CallRefreshMap
  \/ CallRemoveAll
  \/ CallRemoveMap
  \/ CallSelectMap

\* a caller that calls addMap many times, while it holds at most MaxMaps maps:
\* with a name of the generated form, without a handle, with a handle alone
NamingArgs ==
  { [name |-> Str("map-b"), map |-> GoogleMap(1)],
    [name |-> Str("main"), map |-> Undefined],
    [name |-> GoogleMap(1), map |-> Undefined] }

CallAddMapLate ==
  /\ Len(maps) <= MaxMaps
  /\ \E args \in NamingArgs : AddMapUnder(MaxCounter, args.name, args.map)

NextNaming ==
  \/ CallAddMapLate
  \/ CallRemoveAll

NextGeocode ==
  \/ CallGeocode
  \/ ProviderCallback

Next == NextRegistry \/ NextGeocode

\* every method of the service, in any order
Spec == Init /\ [][Next]_vars

\* the callers of the map registry alone: its methods read and write
\* neither the geocode queue nor the promises
SpecRegistry == Init /\ [][NextRegistry]_vars

\* the callers of addMap and removeAll alone, over many calls of addMap
SpecNaming == Init /\ [][NextNaming]_vars

\* the components of every instance that use its autocompletes
SpecAutocomplete == Init /\ [][NextAutocomplete]_vars

\* the callers of several instances of the service
SpecInstances == Init /\ [][NextInstances]_vars

\* the callers of geocode and the provider alone: they read and write
\* neither the maps nor mapIter
SpecGeocode == Init /\ [][NextGeocode]_vars

---------------------------------------------------------------------------
(* Properties of the map registry.                                         *)

\* `name` is the name of a record of the store
Registered(ms, name) == \E i \in 1..Len(ms) : ms[i].name = name

\* the elements of a sequence
Range(seq) == { seq[i] : i \in 1..Len(seq) }

TRUE_  == Returns(Bool(TRUE))
FALSE_ == Returns(Bool(FALSE))

\* C1: after any sequence of addMap, removeMap, removeAll, refreshMap and
\* selectMap calls, returning or throwing, no two records of the registry
\* have the same name.
C1_NamesUnique ==
  \A i, j \in 1..Len(maps) : maps[i].name = maps[j].name => i = j

\* a call of addMap was refused for its name, in a registry of two records
C1_Witness ==
  /\ call.op = "addMap"
  /\ ret = Throws("GMap name is taken, select a new GMap name")
  /\ Len(maps) >= 2

\* C2: addMap(name, handle) with a name that is already registered throws,
\* and leaves the records, their order, names and handles as they were.
C2_DuplicateRefused ==
  [][(call'.op = "addMap" /\ Registered(maps, call'.name))
       => (ret'.kind = "throw" /\ maps' = maps)]_vars

\* addMap was given, with a valid handle, the name of the first of two
\* records, whose handle is another
C2_Witness ==
  /\ call.op = "addMap"
  /\ ret.kind = "throw"
  /\ Len(maps) >= 2
  /\ call.name = maps[1].name
  /\ InstanceOfMap(call.map)
  /\ call.map # maps[1].map

\* C3: list() is the names currently registered, each once, in the order in
\* which they were added: the names of the history of addMap calls, from
\* which a removal takes its name away and which a new addMap extends at the
\* end.
C3_ListInOrderAdded ==
  /\ list(maps) = [i \in 1..Len(added) |-> added[i].name]
  /\ Cardinality(Range(list(maps))) = Len(list(maps))
  /\ Range(list(maps)) = { n \in AllNames : selectMap(maps, n) # Returns(Null) }

\* the first of three names was removed: the other two are listed, in order
C3_Witness ==
  /\ call.op = "removeMap"
  /\ ret = TRUE_
  /\ Len(list(maps)) = 2
  /\ mapIter = 3
  /\ list(maps)[1] # call.name

\* C4: selectMap(name) is null when name is not registered, and otherwise
\* the handle passed to the addMap call that registered the name.
C4_SelectReturnsHandle ==
  \A n \in LookupArgs :
    LET name == DefaultName(n)
        hits == { i \in 1..Len(added) : added[i].name = name }
    IN  /\ hits = {} => selectMap(maps, n) = Returns(Null)
        /\ \A i \in hits : selectMap(maps, n) = Returns(added[i].map)

\* selectMap returned the handle of the second of two records, which differs
\* from the handle of the first
C4_Witness ==
  /\ call.op = "selectMap"
  /\ Len(maps) = 2
  /\ ret = Returns(maps[2].map)
  /\ maps[1].map # maps[2].map

\* removeAll empties the registry, and an addMap call that follows it, made
\* with a handle alone, adds and returns the one record
\* {name: `generated`, map: handle}
AfterRemoveAll(generated) ==
  /\ call'.op = "removeAll" => maps' = << >>
  /\ (call.op = "removeAll" /\ call'.op = "addMap"
                             /\ InstanceOfMap(call'.name))
       => /\ ret' = Returns(MapItem(Str(generated), call'.name))
          /\ maps' = << MapItem(Str(generated), call'.name) >>

\* C5, as claimed: removeAll() empties the registry, and the next addMap
\* call made with a handle alone registers the handle under 'map-0'.
C5_NextNameIsMap0 == [][AfterRemoveAll("map-0")]_vars

\* C5, amended: removeAll() empties the registry, and the next addMap call
\* made with a handle alone registers the handle under 'map-1'.
C5_NextNameIsMap1 == [][AfterRemoveAll("map-1")]_vars

\* the first addMap call since removeAll left the counter at zero was given a
\* handle alone
C5_Witness ==
  /\ call.op = "addMap"
  /\ InstanceOfMap(call.name)
  /\ mapIter = 1
  /\ ret = Returns(MapItem(Str("map-1"), call.name))
  /\ maps = << MapItem(Str("map-1"), call.name) >>

\* C9: removeAll() leaves the registry empty, returns true, and leaves the
\* counter of generated names at zero.
C9_RemoveAllResets ==
  call.op = "removeAll" => (maps = << >> /\ ret = TRUE_ /\ mapIter = 0)

\* removeAll has returned from a registry of three records, two of them
\* under generated names
C9_Witness ==
  /\ call.op = "removeAll"
  /\ Len(call.names) = 3
  /\ Cardinality(Range(call.names) \cap GeneratedNames) >= 2
  /\ ret = TRUE_
  /\ list(maps) = << >>

\* C10: removeMap(name) returns true exactly when name was registered; it
\* then removes the one record of that name and no other, and when it
\* returns false the registry is unchanged.  (With no argument the name is
\* the default, ''.)
C10_RemoveMapExact ==
  [][call'.op = "removeMap" =>
       LET name == DefaultName(call'.name)
       IN  /\ ret' \in { TRUE_, FALSE_ }
           /\ ret' = TRUE_ <=> Registered(maps, name)
           /\ ret' = TRUE_ =>
                /\ maps' = SelectSeq(maps, LAMBDA m : m.name # name)
                /\ Len(maps') = Len(maps) - 1
           /\ ret' = FALSE_ => maps' = maps]_vars

\* removeMap removed a name and left two records
C10_Witness ==
  /\ call.op = "removeMap"
  /\ ret = TRUE_
  /\ Len(maps) = 2
  /\ ~Registered(maps, DefaultName(call.name))

---------------------------------------------------------------------------
(* Properties of geocode.                                                  *)

\* the provider's result exists and has a non-empty error_message
HasMessage(result) ==
  /\ result # Null
  /\ result.error_message # Undefined
  /\ result.error_message # Str("")

\* the promise p is settled as the callback's (result, status) asks
SettledAs(p, result, status) ==
  IF status \in { "OK", "ZERO_RESULTS" }
    THEN p = Fulfilled(result)
    ELSE /\ p.state = "rejected"
         /\ p.reason.status = status
         /\ ("message" \in DOMAIN p.reason) <=> HasMessage(result)
         /\ HasMessage(result) => p.reason.message = result.error_message

\* C6: when the provider's callback reports 'OK' or 'ZERO_RESULTS' the
\* request resolves with the provider's result; for every other status it
\* rejects with an error whose status is that status, and which has a
\* message, the result's error_message, exactly when the result exists and
\* has a non-empty error_message.  This holds of a callback made after
\* geocode() returned and of one made inside it.
C6_SettledByStatus ==
  [][/\ (call'.op = "callback" /\ requests[call'.id].state = "pending")
          => \A result \in Results, status \in Statuses :
               Callback(call'.id, result, status)
                 => SettledAs(requests'[call'.id], result, status)
     /\ (call'.op = "geocode" /\ call'.called)
          => \A result \in Results, status \in Statuses :
               Geocode(Called(result, status))
                 => SettledAs(requests'[Len(requests')], result, status)]_vars

\* of three requests one is resolved, one rejected with a status alone and
\* one rejected with a status and a message
C6_Witness ==
  /\ call.op = "callback"
  /\ Len(requests) = 3
  /\ requests[1].state = "fulfilled"
  /\ requests[2] = Rejected([status |-> "OVER_QUERY_LIMIT"])
  /\ requests[3] = Rejected([status |-> "OVER_QUERY_LIMIT",
                             message |-> Str("quota exceeded")])

\* C7: between the calls of geocode() and of the callbacks, the geocode
\* queue holds only requests that have not settled.
C7_QueueOnlyPending ==
  \A i \in 1..Len(_geocodeQueue) :
    requests[_geocodeQueue[i].id].state = "pending"

\* C8: the callback of a request R in flight, in the queue, takes R off the
\* queue, whether it resolves or rejects R, and leaves the other requests in
\* the queue in their order.
C8_CallbackRemovesOwn ==
  [][(call'.op = "callback" /\ Request(call'.id) \in Range(_geocodeQueue))
       => _geocodeQueue'
            = SelectSeq(_geocodeQueue, LAMBDA r : r # Request(call'.id))]_vars

\* with three requests in flight the callback of the second rejected it and
\* left the first and the third, pending, in the queue
C8_Witness ==
  /\ call.op = "callback"
  /\ call.id = 2
  /\ Len(requests) = 3
  /\ requests[1].state = "pending"
  /\ requests[2].state = "rejected"
  /\ requests[3].state = "pending"
  /\ _geocodeQueue = << Request(1), Request(3) >>

\* the callers of geocode and a provider that answers every request: it
\* calls the callback of each request at least once, inside geocode() or
\* later, and may call it again
SpecGeocodeAnswered ==
  /\ Init
  /\ [][NextGeocode]_vars
  /\ \A id \in 1..MaxRequests : WF_vars(FirstCallback(id))

---------------------------------------------------------------------------
(* More properties of the map registry.                                    *)

\* the warnings among the events of a call
Warnings(events) == SelectSeq(events, LAMBDA e : e.event = "warn")

\* the handle the history has for `name`
HandleOf(name) ==
  (CHOOSE e \in Range(added) : e.name = name).map

\* C11: refreshMap(name) returns true and triggers one resize, on the handle
\* registered under name, exactly when name is registered; otherwise it
\* returns false, throws nothing, triggers no resize and logs a warning.
\* Either way the registry and the counter are left as they were.
C11_RefreshMap ==
  [][call'.op = "refreshMap" =>
       LET name == DefaultName(call'.name)
       IN  /\ maps' = maps /\ mapIter' = mapIter
           /\ Registered(maps, name) =>
                (ret' = TRUE_ /\ out' = << Resize(HandleOf(name)) >>)
           /\ ~Registered(maps, name) =>
                /\ ret' = FALSE_
                /\ Len(out') = 1
                /\ Len(Warnings(out')) = 1]_vars

\* refreshMap resized the map of the second of two records, which is not
\* the map of the first
C11_Witness ==
  /\ call.op = "refreshMap"
  /\ ret = TRUE_
  /\ Len(maps) = 2
  /\ out = << Resize(maps[2].map) >>
  /\ maps[1].map # maps[2].map

\* every name of the registry is a string, and none is empty
NamesNonEmpty ==
  \A i \in 1..Len(maps) : IsString(maps[i].name) /\ maps[i].name # Str("")

\* C12, as claimed: every name of the registry is a non-empty string; an
\* addMap call with the name '' or undefined and a valid handle registers
\* the handle under a generated 'map-<counter>' name; and the counter never
\* decreases.
C12_NamesNonEmptyCounterMonotone ==
  [][/\ NamesNonEmpty'
     /\ (call'.op = "addMap" /\ call'.name \in { Str(""), Undefined }
                             /\ InstanceOfMap(call'.map))
          => /\ ret'.kind = "return"
             /\ ret'.value.name = Str("map-" \o toString36(mapIter'))
             /\ ret'.value.map = call'.map
             /\ maps' = Append(maps, ret'.value)
     /\ mapIter' >= mapIter]_vars

\* C12, amended: every name of the registry is a string, which may be ''; an
\* addMap call with the name '' and a valid handle registers the handle
\* under '' unless '' is taken, one with the name undefined throws and
\* registers nothing, and only a handle given in place of the name gets a
\* generated name; the counter grows by one at each addMap call and
\* decreases only when removeAll sets it to zero.
C12_NamesAreStrings ==
  [][/\ \A i \in 1..Len(maps') : IsString(maps'[i].name)
     /\ (call'.op = "addMap" /\ call'.name = Str("")
                             /\ InstanceOfMap(call'.map)
                             /\ ~Registered(maps, Str("")))
          => /\ ret' = Returns(MapItem(Str(""), call'.map))
             /\ maps' = Append(maps, MapItem(Str(""), call'.map))
     /\ (call'.op = "addMap" /\ call'.name = Undefined)
          => (ret' = Throws("GMap name must be a string") /\ maps' = maps)
     /\ (call'.op = "addMap" /\ ret'.kind = "return"
                             /\ ~InstanceOfMap(call'.name))
          => ret'.value.name = call'.name
     /\ call'.op = "addMap" => mapIter' = mapIter + 1
     /\ call'.op = "removeAll" => mapIter' = 0
     /\ call'.op \notin { "addMap", "removeAll" } => mapIter' = mapIter]_vars

\* addMap('', handle) registered a second record, under the name ''
C12_Witness ==
  /\ call.op = "addMap"
  /\ call.name = Str("")
  /\ Len(maps) = 2
  /\ ret = Returns(MapItem(Str(""), call.map))
  /\ maps[2] = MapItem(Str(""), call.map)

\* C14: addMap throws, and leaves the registry as it was, when the name is
\* neither a string nor a map instance or when the handle is no map
\* instance; the name is judged before the handle, and the handle before
\* the taken name.  When it returns, it has appended one record
\* {name, handle} and returns it.
C14_AddMapValidation ==
  [][call'.op = "addMap" =>
       LET name    == call'.name
           handle  == HandlePassed(name, call'.map)
           badName == ~IsString(name) /\ ~InstanceOfMap(name)
           badMap  == ~InstanceOfMap(handle)
           taken   == IsString(name) /\ Registered(maps, name)
       IN  /\ badName =>
                (ret' = Throws("GMap name must be a string") /\ maps' = maps)
           /\ (~badName /\ badMap) =>
                /\ ret' = Throws("GMap service only accepts Google Map instances")
                /\ maps' = maps
           /\ (~badName /\ ~badMap /\ taken) =>
                /\ ret' = Throws("GMap name is taken, select a new GMap name")
                /\ maps' = maps
           /\ ret'.kind = "throw" => maps' = maps
           /\ ret'.kind = "return" =>
                /\ ~badName /\ ~badMap /\ ~taken
                /\ maps' = Append(maps, ret'.value)
                /\ ret'.value.map = handle
                /\ IsString(name) => ret'.value.name = name
           /\ (IsString(name) /\ ~badMap /\ ~taken) => ret'.kind = "return"]_vars

\* addMap was given a taken name and no map instance: it reports the map
C14_Witness ==
  /\ call.op = "addMap"
  /\ Registered(maps, call.name)
  /\ ~InstanceOfMap(call.map)
  /\ ret = Throws("GMap service only accepts Google Map instances")

\* refreshMap, removeMap, selectMap
Lookups == { "refreshMap", "removeMap", "selectMap" }

\* C17, as claimed: refreshMap, removeMap and selectMap called with a name
\* that is not registered throw nothing, and each logs a warning.
C17_UnknownNameWarns ==
  [][(call'.op \in Lookups /\ ~Registered(maps, DefaultName(call'.name)))
       => (ret'.kind = "return" /\ Len(Warnings(out')) >= 1)]_vars

\* C17, amended: refreshMap, removeMap and selectMap called with a name
\* that is not registered throw nothing; refreshMap returns false and logs
\* one warning, removeMap returns false and selectMap null, and these two
\* log nothing.
C17_UnknownNameReturns ==
  [][(call'.op \in Lookups /\ ~Registered(maps, DefaultName(call'.name)))
       => /\ ret'.kind = "return"
          /\ call'.op = "refreshMap" =>
               (ret' = FALSE_ /\ Len(Warnings(out')) = 1)
          /\ call'.op = "removeMap" => (ret' = FALSE_ /\ out' = << >>)
          /\ call'.op = "selectMap" => (ret' = Returns(Null) /\ out' = << >>)
          /\ maps' = maps]_vars

\* removeMap was given a name that none of the two records has
C17_Witness ==
  /\ call.op = "removeMap"
  /\ Len(maps) = 2
  /\ ret = FALSE_
  /\ out = << >>

\* C18: an addMap call made with a valid handle alone returns: the name it
\* generates is not taken.
C18_GeneratedNameIsFree ==
  [][(call'.op = "addMap" /\ InstanceOfMap(call'.name))
       => ret'.kind = "return"]_vars

---------------------------------------------------------------------------
(* Properties of the counter and of the generated names.                   *)

\* C13: every addMap call adds one to the counter, with or without a name,
\* returning or throwing, and no call but removeAll, which sets it to zero,
\* changes it otherwise; an addMap call given a handle alone names it
\* 'map-' followed by the base-36 digits of the counter after that addition:
\* the k-th addMap call since the counter was zero generates 'map-<k in
\* base 36>'.
C13_CounterAndGeneratedName ==
  [][/\ call'.op = "addMap" =>
          /\ mapIter' = mapIter + 1
          /\ (InstanceOfMap(call'.name) /\ ret'.kind = "return") =>
               /\ ret'.value.name = Str("map-" \o toString36(mapIter + 1))
               /\ mapIter' = 10 => ret'.value.name = Str("map-a")
               /\ mapIter' = 35 => ret'.value.name = Str("map-z")
               /\ mapIter' = 36 => ret'.value.name = Str("map-10")
     /\ call'.op = "removeAll" => mapIter' = 0
     /\ call'.op \notin { "addMap", "removeAll" } => mapIter' = mapIter]_vars

\* the 36th addMap call was given a handle alone and named it 'map-10',
\* after calls that threw
C13_Witness ==
  /\ call.op = "addMap"
  /\ InstanceOfMap(call.name)
  /\ mapIter = 36
  /\ ret = Returns(MapItem(Str("map-10"), call.name))
  /\ maps = << MapItem(Str("map-10"), call.name) >>

---------------------------------------------------------------------------
(* More properties of the geocode queue.                                   *)

Queued(id) == Request(id) \in Range(_geocodeQueue)

\* C15: when the provider calls the callback of every request, every
\* request in the queue is removed from it in the end and the queue is
\* empty again and again; and a request whose callback was never called,
\* which is one whose promise is pending, is in the queue: nothing else
\* removes it.
C15_QueueDrains ==
  /\ \A id \in 1..MaxRequests : Queued(id) ~> ~Queued(id)
  /\ []<>(_geocodeQueue = << >>)
  /\ [](\A id \in 1..Len(requests) :
          requests[id].state = "pending" => Queued(id))

\* C19: a callback removes from the queue no request but its own, also
\* when it is called a second time and when it is called inside geocode(),
\* before the request is pushed.
C19_RemovesNoOtherRequest ==
  [][/\ call'.op = "callback" =>
          SelectSeq(_geocodeQueue', LAMBDA r : r # Request(call'.id))
            = SelectSeq(_geocodeQueue, LAMBDA r : r # Request(call'.id))
     /\ call'.op = "geocode" =>
          SelectSeq(_geocodeQueue', LAMBDA r : r # Request(Len(requests')))
            = _geocodeQueue]_vars

---------------------------------------------------------------------------
(* Properties of the autocompletes.                                        *)

\* what instance `self` gets for the key and for a component with that id
GetByKey(self, id) ==
  autocompletes_get(heap.autocompletes[Holder("autocompletes", self)], Str(id))
GetByComponent(self, id) ==
  autocompletes_get(heap.autocompletes[Holder("autocompletes", self)],
                    Component(id))

---------------------------------------------------------------------------
(* Properties of several instances.                                        *)

AutocompletesOf(self) == heap.autocompletes[Holder("autocompletes", self)]

\* C20: the maps, the counter and the geocode queue that one instance reads
\* are those every instance reads: a map added on one instance is selected
\* on every instance and gone from every instance once one removed it, a
\* request queued on one is in the queue of every instance until its
\* callback removes it from all, and removeAll on one sets the counter of
\* all to zero; whereas an autocomplete entry added or removed on one
\* instance changes the autocompletes of no other.
C20_SharedButAutocompletes ==
  [][/\ \A i, j \in Instances :
          /\ MapsOf(i)' = MapsOf(j)'
          /\ MapIterOf(i)' = MapIterOf(j)'
          /\ QueueOf(i)' = QueueOf(j)'
     /\ (call'.op = "addMap" /\ ret'.kind = "return") =>
          \A j \in Instances :
            /\ selectMap(MapsOf(j)', ret'.value.name) = Returns(ret'.value.map)
            /\ MapIterOf(j)' = MapIterOf(j) + 1
     /\ (call'.op = "removeMap" /\ ret' = TRUE_) =>
          \A j \in Instances : selectMap(MapsOf(j)', call'.name) = Returns(Null)
     /\ call'.op = "removeAll" =>
          \A j \in Instances : MapIterOf(j)' = 0 /\ MapsOf(j)' = << >>
     /\ call'.op = "geocode" =>
          \A j \in Instances : ret'.value \in Range(QueueOf(j)')
     /\ call'.op = "callback" =>
          \A j \in Instances : Request(call'.id) \notin Range(QueueOf(j)')
     /\ call'.op \in { "autocompletes.add", "autocompletes.remove" } =>
          \A j \in Instances :
            j # call'.self => AutocompletesOf(j)' = AutocompletesOf(j)
     /\ \A j \in Instances :
          autocompletes_get(AutocompletesOf(j)', Str("ember1"))
            = latest'[j]["ember1"]]_vars

\* instance 2 selected the map that instance 1 added as 'main', while a
\* request is in the queue and only instance 1 has an autocomplete entry
C20_Witness ==
  /\ call.op = "selectMap"
  /\ call.self = 2
  /\ ret = Returns(GoogleMap(1))
  /\ QueueOf(2) # << >>
  /\ autocompletes_get(AutocompletesOf(1), Str("ember1")) # Undefined
  /\ autocompletes_get(AutocompletesOf(2), Str("ember1")) = Undefined

===========================================================================
